---- MODULE Spec2Model ----
(***************************************************************************)
(* Model of the Fabric AI MCP bridge (src/src/index.ts).                   *)
(*                                                                         *)
(* Two specifications share the variables of this module:                  *)
(*   Spec      the tool dispatcher and the seven operations behind it, one *)
(*             call at a time, each operation split at its await points;   *)
(*             the command executor is seen at its promise boundary        *)
(*             (it resolves with {stdout, stderr} or rejects with an       *)
(*             Error).                                                     *)
(*   SpecExec  one call of execWithTimeout in detail: the child process,   *)
(*             child_process.exec's own timeout, the safety timer, the     *)
(*             'exit' / 'close' / 'error' events and a clock.              *)
(*                                                                         *)
(* A JavaScript string is a sequence of one-character strings; undefined   *)
(* (an absent argument) is a field missing from the argument mapping.      *)
(***************************************************************************)
EXTENDS Naturals, Sequences, FiniteSets

\* ------------------------------------------------------------------ bounds
\* most entries a readdir of the patterns directory returns
MaxEntries == 2
\* most characters the external program writes to standard output
MaxStdoutLen == 3

\* ----------------------------------------------------------------- strings
Letters == {"W", "w", "e"}
Whitespace == {" ", "\n"}
Chars == Letters \cup Whitespace

\* UTF-16 code unit of a character (what Array.prototype.sort and < compare)
CodeUnit(c) ==
  CASE c = "\n" -> 10
    [] c = " " -> 32
    [] c = "W" -> 87
    [] c = "e" -> 101
    [] c = "w" -> 119

\* String.prototype.toLowerCase, one character
LowerChar(c) == IF c = "W" THEN "w" ELSE c

\* String.prototype.toLowerCase
toLowerCase(s) == [i \in 1..Len(s) |-> LowerChar(s[i])]

\* String.prototype.includes
includes(s, t) ==
  \E i \in 0..Len(s) : i + Len(t) <= Len(s) /\ SubSeq(s, i + 1, i + Len(t)) = t

RECURSIVE trimStart(_)
trimStart(s) ==
  IF s # <<>> /\ Head(s) \in Whitespace THEN trimStart(Tail(s)) ELSE s

RECURSIVE trimEnd(_)
trimEnd(s) ==
  IF s # <<>> /\ s[Len(s)] \in Whitespace
  THEN trimEnd(SubSeq(s, 1, Len(s) - 1)) ELSE s

\* String.prototype.trim
trim(s) == trimEnd(trimStart(s))

\* String.prototype.split("\n"): the pieces between newlines, empty ones kept
RECURSIVE split(_)
split(s) ==
  IF \A i \in 1..Len(s) : s[i] # "\n" THEN <<s>>
  ELSE LET k == CHOOSE i \in 1..Len(s) :
                  s[i] = "\n" /\ \A j \in 1..(i - 1) : s[j] # "\n"
       IN <<SubSeq(s, 1, k - 1)>> \o split(SubSeq(s, k + 1, Len(s)))

\* a < b as JavaScript compares strings: by code unit, a proper prefix first
RECURSIVE StrLess(_, _)
StrLess(a, b) ==
  IF b = <<>> THEN FALSE
  ELSE IF a = <<>> THEN TRUE
  ELSE IF Head(a) # Head(b) THEN CodeUnit(Head(a)) < CodeUnit(Head(b))
  ELSE StrLess(Tail(a), Tail(b))

\* insertion of x into the sorted list xs, after the elements equal to it
RECURSIVE insertSorted(_, _)
insertSorted(x, xs) ==
  IF xs = <<>> THEN <<x>>
  ELSE IF StrLess(x, Head(xs)) THEN <<x>> \o xs
  ELSE <<Head(xs)>> \o insertSorted(x, Tail(xs))

\* Array.prototype.sort with the default comparison (stable)
RECURSIVE sort(_)
sort(xs) ==
  IF xs = <<>> THEN <<>>
  ELSE insertSorted(xs[Len(xs)], sort(SubSeq(xs, 1, Len(xs) - 1)))

\* all strings over the characters cs of length at most n
RECURSIVE StringsUpTo(_, _)
StringsUpTo(cs, n) ==
  IF n = 0 THEN {<<>>}
  ELSE LET shorter == StringsUpTo(cs, n - 1)
       IN shorter \cup {<<c>> \o s : c \in cs, s \in {t \in shorter : Len(t) = n - 1}}

IsSorted(xs) == \A i \in 1..(Len(xs) - 1) : ~StrLess(xs[i + 1], xs[i])

Range(xs) == {xs[i] : i \in 1..Len(xs)}

\* ------------------------------------------------------------------ inputs
ToolNames ==
  {"execute_pattern", "list_patterns", "get_pattern_details", "process_url",
   "process_youtube", "update_patterns", "list_models"}

\* a name outside the fixed set
UnknownNames == {"bogus", "execute"}

\* values a caller gives a required field: empty, blank, padded and plain
RequiredValues == {<<>>, <<" ">>, <<" ", "w">>, <<"w">>}
\* values a caller gives the optional model: plain and blank
ModelValues == {<<"e">>, <<" ">>}
SearchValues ==
  {<<>>, <<"w">>, <<"W">>, <<"e">>, <<"w", "e">>, <<"e", "w">>, <<" ">>}

FieldsOf(name) ==
  CASE name = "execute_pattern" -> {"input_text", "pattern_name", "model"}
    [] name = "list_patterns" -> {"search"}
    [] name = "get_pattern_details" -> {"pattern_name"}
    [] name = "process_url" -> {"url", "pattern_name", "model"}
    [] name = "process_youtube" -> {"youtube_url", "pattern_name", "model"}
    [] OTHER -> {}

ValuesOf(field) ==
  CASE field = "model" -> ModelValues
    [] field = "search" -> SearchValues
    [] OTHER -> RequiredValues

\* the argument mappings of a tool: every field present or absent
ArgumentsOf(name) ==
  UNION {{a \in [D -> StringsUpTo(Chars, 2)] : \A f \in D : a[f] \in ValuesOf(f)} :
           D \in SUBSET FieldsOf(name)}

Requests ==
  UNION {{[name |-> n, args |-> a] : a \in ArgumentsOf(n)} :
           n \in ToolNames \cup UnknownNames}

PatternNames == {<<"W">>, <<"e">>, <<"w", "e">>, <<"W", "e">>}
Dirents == [name : PatternNames, isDirectory : BOOLEAN]

\* the results of readdir: up to n entries with distinct names, in any order
RECURSIVE DirListings(_)
DirListings(n) ==
  IF n = 0 THEN {<<>>}
  ELSE LET shorter == DirListings(n - 1)
       IN shorter \cup
          UNION {{Append(l, d) :
                    d \in {e \in Dirents : \A i \in 1..Len(l) : l[i].name # e.name}} :
                   l \in {m \in shorter : Len(m) = n - 1}}

\* what the external program may write to standard output / standard error
StdoutChars == {"W", "w", " ", "\n"}
Stdouts == StringsUpTo(StdoutChars, MaxStdoutLen)
Stderrs == {<<>>, <<"w">>}

\* ------------------------------------------------------- errors and texts
\* an Error object, by its message: "<name> is required", "Command timed out
\* after <timeoutMs>ms", "Unknown tool: <name>", or the message of the error
\* child_process.exec gave (kind "failed", "spawn" or "maxBuffer")
Err(kind, name, ms) == [kind |-> kind, name |-> name, timeoutMs |-> ms]
NoErr == Err("none", "", 0)

\* a text payload: its leading marker, its heading and what it carries
Text(marker, head) ==
  [marker |-> marker, head |-> head, error |-> NoErr, subject |-> <<>>,
   count |-> 0, entries |-> <<>>, body |-> <<>>]

\* a variant of formatError that returns the message without the marker
formatError_NoMarker(error) == [Text("plain", "Error") EXCEPT !.error = error]

\* formatError: the failure marker, then the message of the error
formatError(error) == [Text("failure", "Error") EXCEPT !.error = error]

\* validateRequired without the trim test: only !value rejects
validateRequired_NoTrim(value, name) ==
  IF value = <<>>
  THEN [ok |-> FALSE, value |-> <<>>, error |-> Err("required", name, 0)]
  ELSE [ok |-> TRUE, value |-> trim(value), error |-> NoErr]

\* validateRequired: throws "<name> is required" unless value has a non-blank
\* character, and returns value trimmed
validateRequired(value, name) ==
  IF value = <<>> \/ trim(value) = <<>>
  THEN [ok |-> FALSE, value |-> <<>>, error |-> Err("required", name, 0)]
  ELSE [ok |-> TRUE, value |-> trim(value), error |-> NoErr]

\* (args?.field as string) || ""
Arg(args, field) == IF field \in DOMAIN args THEN args[field] ELSE <<>>

\* ---------------------------------------------------------------- commands
\* a command line, by the parts interpolated into it, with the executor it is
\* given to and that executor's timeout
Command(kind, target, pattern, model, via, ms) ==
  [kind |-> kind, target |-> target, pattern |-> pattern, model |-> model,
   via |-> via, timeoutMs |-> ms]
NoCommand == Command("none", <<>>, <<>>, <<>>, "none", 0)

\* the errors a call of execWithTimeout rejects with
execWithTimeoutErrors(ms) ==
  {Err("timeout", "", ms), Err("failed", "", 0), Err("spawn", "", 0),
   Err("maxBuffer", "", 0)}

\* the errors a call of the promisified exec rejects with
execAsyncErrors == {Err("failed", "", 0), Err("spawn", "", 0), Err("maxBuffer", "", 0)}

Resolved(stdout, stderr) ==
  [state |-> "resolved", stdout |-> stdout, stderr |-> stderr, error |-> NoErr]
Rejected(error) ==
  [state |-> "rejected", stdout |-> <<>>, stderr |-> <<>>, error |-> error]
NoOutcome == [state |-> "none", stdout |-> <<>>, stderr |-> <<>>, error |-> NoErr]

\* how the promise of a spawned command may settle
OutcomesOf(command) ==
  {Resolved(out, err) : out \in Stdouts, err \in Stderrs}
  \cup {Rejected(e) : e \in IF command.via = "execWithTimeout"
                            THEN execWithTimeoutErrors(command.timeoutMs)
                            ELSE execAsyncErrors}

\* how the promise of a spawned command may settle when the external program
\* is not on the search path: the shell ends with status 127, or could not be
\* spawned; the command of getPatternDetails ends in `|| echo "Pattern: ..."`,
\* whose output and status 0 are the command's, with the shell's complaint
\* on stderr
OutcomesWhenAbsent(command) ==
  IF command.kind = "details"
  THEN {Resolved(command.pattern \o <<"\n">>, <<"w">>), Rejected(Err("spawn", "", 0))}
  ELSE {Rejected(Err("failed", "", 0)), Rejected(Err("spawn", "", 0))}

\* ------------------------------------------------------------ list_patterns
ReaddirError == [state |-> "error", entries |-> <<>>]
ReaddirOk(entries) == [state |-> "ok", entries |-> entries]
NotRead == [state |-> "unread", entries |-> <<>>]
ReaddirResults == {ReaddirError} \cup {ReaddirOk(l) : l \in DirListings(MaxEntries)}

\* listPatternsFromFileSystem: the names of the directories, sorted; [] when
\* readdir throws
listPatternsFromFileSystem(result) ==
  IF result.state # "ok" THEN <<>>
  ELSE LET dirs == SelectSeq(result.entries, LAMBDA entry : entry.isDirectory)
       IN sort([i \in 1..Len(dirs) |-> dirs[i].name])

\* the filter without toLowerCase: a case-sensitive match
matchesSearch_CaseSensitive(p, search) == search = <<>> \/ includes(p, search)

\* (p) => !search || p.toLowerCase().includes(search.toLowerCase())
matchesSearch(p, search) ==
  search = <<>> \/ includes(toLowerCase(p), toLowerCase(search))

\* stdout.split("\n").filter((p) => p.trim()).filter(matches search)
cliPatternsOf(stdout, search) ==
  SelectSeq(SelectSeq(split(stdout), LAMBDA p : trim(p) # <<>>),
            LAMBDA p : matchesSearch(p, search))

\* patterns.filter(matches search)
filteredOf(patterns, search) == SelectSeq(patterns, LAMBDA p : matchesSearch(p, search))

NoPatternsMatching(search) ==
  [Text("failure", "No patterns found matching") EXCEPT !.subject = search]
NoPatternsAvailable == Text("failure", "No patterns available")
NotConfigured ==
  Text("failure", "No patterns available. Fabric may not be properly configured.")
AvailablePatterns(entries) ==
  [Text("catalog", "Available Patterns") EXCEPT !.count = Len(entries),
                                                 !.entries = entries]

\* the empty message of the CLI branch without the search test
listPatternsFromCli_IgnoresSearch(stdout, search) ==
  LET cliPatterns == cliPatternsOf(stdout, search)
  IN IF Len(cliPatterns) = 0 THEN NoPatternsAvailable
     ELSE AvailablePatterns(cliPatterns)

\* listPatterns after the CLI fallback resolved with stdout
listPatternsFromCli(stdout, search) ==
  LET cliPatterns == cliPatternsOf(stdout, search)
  IN IF Len(cliPatterns) = 0
     THEN (IF search # <<>> THEN NoPatternsMatching(search) ELSE NoPatternsAvailable)
     ELSE AvailablePatterns(cliPatterns)

\* the CLI failure left to the outer catch of listPatterns
listPatternsCliFailed_Rethrown(search) == formatError(Err("failed", "", 0))

\* listPatterns after the CLI fallback rejected
listPatternsCliFailed(search) == NotConfigured

\* listPatterns with a non-empty primary source
listPatternsFromPrimary(patterns, search) ==
  LET filtered == filteredOf(patterns, search)
  IN IF Len(filtered) = 0 THEN NoPatternsMatching(search)
     ELSE AvailablePatterns(filtered)

\* the length test inverted
needsFallback_Inverted(patterns) == Len(patterns) # 0

\* whether listPatterns turns to the CLI fallback
needsFallback(patterns) == Len(patterns) = 0

\* -------------------------------------------------------- dispatcher state
VARIABLES
  pc,        \* "idle", "readdir" (awaiting readdir), "exec" (awaiting the
             \* spawned command), "done" (the response is with the caller)
  req,       \* the tool call being served: its name and argument mapping
  spawnLog,  \* the commands spawned so far in this call, in order
  fsResult,  \* what readdir gave in this call
  patterns,  \* listPatterns' patterns, once the filesystem has been read
  outcome,   \* how the awaited command settled
  response,  \* the response handed to the caller: text and isError
  log        \* the levels logged in this call, in order

dvars == <<pc, req, spawnLog, fsResult, patterns, outcome, response, log>>

\* ---------------------------------------------------------- executor state
\* One call of execWithTimeout(command, timeoutMs, maxBuffer).  Time is counted
\* in ticks of 500 ms from the spawn; a timer fires when its delay has elapsed,
\* and the event loop delivers a pending event before time moves on.

\* the safety timer's extra delay, timeoutMs + 1000, in ticks
SafetyDelay == 2
\* largest timeoutMs, in ticks
MaxTimeout == 2
\* largest maxBuffer, in chunks of output
MaxBuffer == 2

VARIABLES
  now,            \* ticks since the call
  timeoutMs,      \* the call's timeout, in ticks
  maxBuffer,      \* the call's output cap, in chunks
  promise,        \* "none" (not called), "pending", "resolved", "rejected"
  settled,        \* what the promise settled with
  child,          \* "none", "running", "dead", "failed" (never started)
  exitCode,       \* the exit status of a dead child (0 none yet or success)
  exitSignal,     \* the signal that ended a dead child, "null" if none
  sigtermSent,    \* the bridge has sent SIGTERM to the running child
  signalsSent,    \* how many signals the bridge has sent to the running child
  childKilled,    \* child.killed: a signal was sent through child.kill
  timeoutId,      \* exec's own timeout timer is armed
  killed,         \* exec's killed flag: its kill() has run
  ex,             \* exec's pending error: "none", "maxBuffer", "spawn"
  exited,         \* exec's exithandler has run
  streams,        \* the child's stdout/stderr: "open", "ended", "destroyed"
  captured,       \* chunks of output captured so far
  safetyTimeout,  \* "unset", "armed", "fired", "cleared"
  errorPending,   \* the child's 'error' event is queued for the next tick
  exitEmitted,    \* the child's 'exit' event has been emitted
  closeEmitted,   \* the child's 'close' event has been emitted
  settledAt,      \* when the promise settled
  aliveAtTimeout  \* the child was running when timeoutMs elapsed

xvars == <<now, timeoutMs, maxBuffer, promise, settled, child, exitCode, exitSignal,
           sigtermSent, signalsSent, childKilled, timeoutId, killed, ex, exited, streams,
           captured, safetyTimeout, errorPending, exitEmitted, closeEmitted,
           settledAt, aliveAtTimeout>>

\* ------------------------------------------------- calls in flight at once
\* Several calls of execWithTimeout, each started by its own invocation of the
\* tool handler.  Every invocation has its own promise, child, exec state and
\* safety timer (locals of the closures); the clock is the only thing shared.

\* the calls' timeoutMs, in ticks
CallTimeout == 1
\* the latest tick at which a call starts
MaxStart == 1

VARIABLES
  calls,   \* the state of each call: the executor's variables, per call
  clock    \* ticks since the bridge started serving

cvars == <<calls, clock>>

\* ------------------------------------------------------------ startup state
\* The top level of the entry file: the probe for the external program, then
\* the connection of the transport.  The repository has two entry files: the
\* top-level code of src/index.ts and main() of the other source file.
VARIABLES
  entry,            \* the entry file of the process: "index" or "main"
  server,           \* "starting", "probing", "connecting", "running", "exited"
  fabricPresent,    \* whether the external program is on the search path
  fabricInstalled,  \* the probe's result: "unset", "yes", "no"
  probes,           \* how many times the probe was spawned
  startupLog        \* the levels logged by the startup code

svars == <<entry, server, fabricPresent, fabricInstalled, probes, startupLog>>

\* what a step of the dispatcher, of the single executor, of the concurrent
\* calls, of the startup leaves alone
nonDispatcher == <<xvars, cvars, svars>>
nonExecutor == <<dvars, cvars, svars>>
nonCalls == <<dvars, xvars, svars>>
nonStartup == <<dvars, xvars, cvars>>

vars == <<dvars, xvars, cvars, svars>>

NoRequest == [name |-> "none", args |-> <<>>]
NoResponse == [text |-> Text("none", ""), isError |-> FALSE]

\* return { content: [{ type: "text", text }] }: no isError field, which the
\* protocol reads as false
Reply(text) == [text |-> text, isError |-> FALSE]

\* a variant of ErrorReply without the handler's catch: the error leaves the
\* handler and the host gets no text
ErrorReply_Rethrown(error) == [text |-> Text("none", ""), isError |-> TRUE]

\* a variant of ErrorReply that returns the text without the isError field
ErrorReply_NoFlag(error) == [text |-> formatError(error), isError |-> FALSE]

\* the handler's catch: return { content: [...formatError(error)], isError: true }
ErrorReply(error) == [text |-> formatError(error), isError |-> TRUE]

\* the operation's own catch: logger.error, return formatError(error); the
\* handler wraps the returned string like any other
CaughtInOperation(error) == Reply(formatError(error))

InitDispatcher ==
  /\ pc = "idle"
  /\ req = NoRequest
  /\ spawnLog = <<>>
  /\ fsResult = NotRead
  /\ patterns = <<>>
  /\ outcome = NoOutcome
  /\ response = NoResponse
  /\ log = <<>>

\* the operation returned without awaiting anything further
Finish(r, levels) ==
  /\ pc' = "done"
  /\ response' = r
  /\ log' = log \o levels

\* the operation spawned command and awaits it
Spawn(command, levels) ==
  /\ pc' = "exec"
  /\ spawnLog' = Append(spawnLog, command)
  /\ log' = log \o levels
  /\ UNCHANGED response

\* the common shape of executePattern, processUrl and processYoutube up to the
\* await: validate the two required fields in the order given, build the
\* command (--model appended when model is non-empty), spawn it
StartPatternTool(kind, first, second, ms) ==
  LET v1 == validateRequired(Arg(req'.args, first), first)
      v2 == validateRequired(Arg(req'.args, second), second)
      target == IF first = "pattern_name" THEN v2.value ELSE v1.value
      pattern == IF first = "pattern_name" THEN v1.value ELSE v2.value
  IN IF ~v1.ok THEN Finish(CaughtInOperation(v1.error), <<"info", "error">>)
                    /\ UNCHANGED spawnLog
     ELSE IF ~v2.ok THEN Finish(CaughtInOperation(v2.error), <<"info", "error">>)
                         /\ UNCHANGED spawnLog
     ELSE Spawn(Command(kind, target, pattern, Arg(req'.args, "model"),
                        "execWithTimeout", ms), <<"info">>)

\* a variant of FinishPatternTool that takes a non-empty stderr for a failure
FinishPatternTool_StderrFails(head) ==
  IF outcome'.state = "resolved" /\ outcome'.stderr = <<>>
  THEN Finish(Reply([Text("success", head) EXCEPT !.body = outcome'.stdout]), <<>>)
  ELSE Finish(CaughtInOperation(outcome'.error), <<"error">>)

\* the common shape after the await: a warning when stderr is non-empty and
\* the success text, or the operation's catch
FinishPatternTool(head) ==
  IF outcome'.state = "resolved"
  THEN Finish(Reply([Text("success", head) EXCEPT !.body = outcome'.stdout]),
              IF outcome'.stderr # <<>> THEN <<"warn">> ELSE <<>>)
  ELSE Finish(CaughtInOperation(outcome'.error), <<"error">>)

\* the transport is connected and the handlers are those of src/index.ts
Serving == server = "running" /\ entry = "index"

Receive(name) ==
  /\ Serving
  /\ pc = "idle"
  /\ \E r \in Requests : r.name = name /\ req' = r

\* the awaited command settles, in one of the ways open to it
Settle(name) ==
  /\ pc = "exec"
  /\ req.name = name
  /\ \E o \in IF fabricPresent THEN OutcomesOf(spawnLog[Len(spawnLog)])
                              ELSE OutcomesWhenAbsent(spawnLog[Len(spawnLog)]) :
       outcome' = o

\* case "execute_pattern" and executePattern up to its await
CallExecutePattern ==
  /\ UNCHANGED nonDispatcher
  /\ Receive("execute_pattern")
  /\ StartPatternTool("execute", "pattern_name", "input_text", 60000)
  /\ UNCHANGED <<fsResult, patterns, outcome>>

\* executePattern after its await
ExecutePatternSettles ==
  /\ UNCHANGED nonDispatcher
  /\ Settle("execute_pattern")
  /\ FinishPatternTool("Pattern Result")
  /\ UNCHANGED <<req, spawnLog, fsResult, patterns>>

\* case "process_url" and processUrl up to its await
CallProcessUrl ==
  /\ UNCHANGED nonDispatcher
  /\ Receive("process_url")
  /\ StartPatternTool("url", "url", "pattern_name", 120000)
  /\ UNCHANGED <<fsResult, patterns, outcome>>

\* processUrl after its await
ProcessUrlSettles ==
  /\ UNCHANGED nonDispatcher
  /\ Settle("process_url")
  /\ FinishPatternTool("URL Processing Result")
  /\ UNCHANGED <<req, spawnLog, fsResult, patterns>>

\* case "process_youtube" and processYoutube up to its await
CallProcessYoutube ==
  /\ UNCHANGED nonDispatcher
  /\ Receive("process_youtube")
  /\ StartPatternTool("youtube", "youtube_url", "pattern_name", 180000)
  /\ UNCHANGED <<fsResult, patterns, outcome>>

\* processYoutube after its await
ProcessYoutubeSettles ==
  /\ UNCHANGED nonDispatcher
  /\ Settle("process_youtube")
  /\ FinishPatternTool("YouTube Processing Result")
  /\ UNCHANGED <<req, spawnLog, fsResult, patterns>>

\* case "get_pattern_details" and getPatternDetails up to its await: the
\* command goes to the promisified exec with timeout 5000
CallGetPatternDetails ==
  /\ UNCHANGED nonDispatcher
  /\ Receive("get_pattern_details")
  /\ LET v == validateRequired(Arg(req'.args, "pattern_name"), "pattern_name")
     IN IF ~v.ok THEN Finish(CaughtInOperation(v.error), <<"info", "error">>)
                      /\ UNCHANGED spawnLog
        ELSE Spawn(Command("details", <<>>, v.value, <<>>, "execAsync", 5000),
                   <<"info">>)
  /\ UNCHANGED <<fsResult, patterns, outcome>>

\* getPatternDetails after its await
GetPatternDetailsSettles ==
  /\ UNCHANGED nonDispatcher
  /\ Settle("get_pattern_details")
  /\ LET pattern == spawnLog[1].pattern
     IN IF outcome'.state = "rejected"
        THEN Finish(CaughtInOperation(outcome'.error), <<"error">>)
        ELSE IF outcome'.stderr # <<>> /\ outcome'.stdout = <<>>
        THEN Finish(Reply([Text("detail", "Pattern") EXCEPT !.subject = pattern]),
                    <<>>)
        ELSE Finish(Reply([Text("detail", "Pattern Details") EXCEPT
                             !.subject = pattern, !.body = outcome'.stdout]), <<>>)
  /\ UNCHANGED <<req, spawnLog, fsResult, patterns>>

\* case "update_patterns" and updatePatterns up to its await
CallUpdatePatterns ==
  /\ UNCHANGED nonDispatcher
  /\ Receive("update_patterns")
  /\ Spawn(Command("update", <<>>, <<>>, <<>>, "execWithTimeout", 60000), <<"info">>)
  /\ UNCHANGED <<fsResult, patterns, outcome>>

\* updatePatterns after its await
UpdatePatternsSettles ==
  /\ UNCHANGED nonDispatcher
  /\ Settle("update_patterns")
  /\ FinishPatternTool("Patterns Updated")
  /\ UNCHANGED <<req, spawnLog, fsResult, patterns>>

\* case "list_models" and listModels up to its await
CallListModels ==
  /\ UNCHANGED nonDispatcher
  /\ Receive("list_models")
  /\ Spawn(Command("listmodels", <<>>, <<>>, <<>>, "execWithTimeout", 5000),
           <<"info">>)
  /\ UNCHANGED <<fsResult, patterns, outcome>>

\* listModels after its await: the listing, or the setup hint when the CLI
\* failed
ListModelsSettles ==
  /\ UNCHANGED nonDispatcher
  /\ Settle("list_models")
  /\ IF outcome'.state = "resolved"
     THEN Finish(Reply([Text("catalog", "Available Models") EXCEPT
                          !.body = outcome'.stdout]), <<>>)
     ELSE Finish(Reply(Text("info", "Models are configured via the Fabric CLI setup.")),
                 <<"warn">>)
  /\ UNCHANGED <<req, spawnLog, fsResult, patterns>>

\* default: throw new Error(`Unknown tool: ${name}`), caught by the handler
CallUnknownTool ==
  /\ UNCHANGED nonDispatcher
  /\ Serving
  /\ pc = "idle"
  /\ \E r \in Requests : r.name \notin ToolNames /\ req' = r
  /\ Finish(ErrorReply(Err("unknownTool", req'.name, 0)), <<"error">>)
  /\ UNCHANGED <<spawnLog, fsResult, patterns, outcome>>

\* case "list_patterns" and listPatterns up to the await of readdir
CallListPatterns ==
  /\ UNCHANGED nonDispatcher
  /\ Receive("list_patterns")
  /\ pc' = "readdir"
  /\ log' = log \o <<"info">>
  /\ UNCHANGED <<spawnLog, fsResult, patterns, outcome, response>>

\* readdir settles: listPatternsFromFileSystem returns, and listPatterns either
\* answers from the primary source or spawns the CLI fallback and awaits it
ReaddirSettles ==
  /\ UNCHANGED nonDispatcher
  /\ pc = "readdir"
  /\ \E result \in ReaddirResults : fsResult' = result
  /\ patterns' = listPatternsFromFileSystem(fsResult')
  /\ LET readLog == IF fsResult'.state = "error" THEN <<"error">> ELSE <<>>
     IN IF needsFallback(patterns')
        THEN Spawn(Command("listpatterns", <<>>, <<>>, <<>>, "execWithTimeout", 5000),
                   readLog)
        ELSE Finish(Reply(listPatternsFromPrimary(patterns', Arg(req.args, "search"))),
                    readLog)
                /\ UNCHANGED spawnLog
  /\ UNCHANGED <<req, outcome>>

\* the CLI fallback settles
ListPatternsCliSettles ==
  /\ UNCHANGED nonDispatcher
  /\ Settle("list_patterns")
  /\ IF outcome'.state = "resolved"
     THEN Finish(Reply(listPatternsFromCli(outcome'.stdout, Arg(req.args, "search"))),
                 <<>>)
     ELSE Finish(Reply(listPatternsCliFailed(Arg(req.args, "search"))), <<"warn">>)
  /\ UNCHANGED <<req, spawnLog, fsResult, patterns>>

\* the caller has the response; the call's state is discarded
Return ==
  /\ UNCHANGED nonDispatcher
  /\ pc = "done"
  /\ pc' = "idle"
  /\ req' = NoRequest
  /\ spawnLog' = <<>>
  /\ fsResult' = NotRead
  /\ patterns' = <<>>
  /\ outcome' = NoOutcome
  /\ response' = NoResponse
  /\ log' = <<>>

NextDispatcher ==
  \/ CallExecutePattern \/ ExecutePatternSettles
  \/ CallListPatterns \/ ReaddirSettles \/ ListPatternsCliSettles
  \/ CallGetPatternDetails \/ GetPatternDetailsSettles
  \/ CallProcessUrl \/ ProcessUrlSettles
  \/ CallProcessYoutube \/ ProcessYoutubeSettles
  \/ CallUpdatePatterns \/ UpdatePatternsSettles
  \/ CallListModels \/ ListModelsSettles
  \/ CallUnknownTool
  \/ Return

\* ------------------------------------------------------- executor actions
InitExecutor ==
  /\ now = 0
  /\ timeoutMs = 0
  /\ maxBuffer = 0
  /\ promise = "none"
  /\ settled = NoOutcome
  /\ child = "none"
  /\ exitCode = 0
  /\ exitSignal = "null"
  /\ sigtermSent = FALSE
  /\ signalsSent = 0
  /\ childKilled = FALSE
  /\ timeoutId = FALSE
  /\ killed = FALSE
  /\ ex = "none"
  /\ exited = FALSE
  /\ streams = "open"
  /\ captured = 0
  /\ safetyTimeout = "unset"
  /\ errorPending = FALSE
  /\ exitEmitted = FALSE
  /\ closeEmitted = FALSE
  /\ settledAt = 0
  /\ aliveAtTimeout = FALSE

\* resolve / reject of the promise: only the first call has an effect
SettleWith(o) ==
  IF promise = "pending"
  THEN /\ promise' = o.state
       /\ settled' = o
       /\ settledAt' = now
  ELSE UNCHANGED <<promise, settled, settledAt>>

\* the error exec's exithandler builds when it has none pending:
\* { code, killed: child.killed || killed, signal }
GenericError(code, isKilled, signal) == [code |-> code, killed |-> isKilled, signal |-> signal]
\* an error without killed and signal properties (spawn failure, maxBuffer)
BareError == GenericError(0, FALSE, "undefined")

\* the callback execWithTimeout gives exec, on an error
callbackOnError(error, kind, ms) ==
  IF error.killed \/ error.signal = "SIGTERM"
  THEN Rejected(Err("timeout", "", ms))
  ELSE Rejected(Err(kind, "", 0))

\* ChildProcess.kill: the signal is sent while the handle exists (until 'exit'
\* is emitted), and child.killed is set when it was sent
ChildKill ==
  /\ sigtermSent' = (sigtermSent \/ child = "running")
  /\ signalsSent' = IF child = "running" THEN signalsSent + 1 ELSE signalsSent
  /\ childKilled' = (childKilled \/ (child \in {"running", "dead"} /\ ~exitEmitted))

\* a variant of exec's kill() that leaves the streams open
ExecKill_KeepsStreams ==
  /\ streams' = streams
  /\ killed' = TRUE
  /\ ChildKill

\* exec's kill(): destroy the streams, killed = true, child.kill(killSignal)
ExecKill ==
  /\ streams' = "destroyed"
  /\ killed' = TRUE
  /\ ChildKill

\* exec's exithandler(code, signal), the listener of 'close'
ExitHandler(code, signal) ==
  IF exited THEN UNCHANGED <<exited, timeoutId, ex, promise, settled, settledAt>>
  ELSE /\ exited' = TRUE
       /\ timeoutId' = FALSE
       /\ UNCHANGED ex
       /\ IF ex = "none" /\ code = 0 /\ signal = "null"
          THEN SettleWith(Resolved(<<>>, <<>>))
          ELSE IF ex = "none"
          THEN SettleWith(callbackOnError(
                 GenericError(code, childKilled \/ killed, signal), "failed", timeoutMs))
          ELSE SettleWith(callbackOnError(BareError, ex, timeoutMs))

\* execWithTimeout is called and the shell is spawned: exec arms its timeout,
\* the safety timer is armed and the 'exit' listener registered
CallSpawns ==
  /\ UNCHANGED nonExecutor
  /\ promise = "none"
  /\ \E t \in 1..MaxTimeout, b \in 1..MaxBuffer : timeoutMs' = t /\ maxBuffer' = b
  /\ promise' = "pending"
  /\ child' = "running"
  /\ timeoutId' = TRUE
  /\ safetyTimeout' = "armed"
  /\ UNCHANGED <<now, settled, exitCode, exitSignal, sigtermSent, signalsSent, childKilled, killed,
                 ex, exited, streams, captured, errorPending, exitEmitted,
                 closeEmitted, settledAt, aliveAtTimeout>>

\* the spawn fails with an error that is reported by the 'error' event
\* (EAGAIN, EMFILE, ENOENT...): exec still returns the child, both timers are
\* armed, and the event is queued
CallSpawnFails ==
  /\ UNCHANGED nonExecutor
  /\ promise = "none"
  /\ \E t \in 1..MaxTimeout, b \in 1..MaxBuffer : timeoutMs' = t /\ maxBuffer' = b
  /\ promise' = "pending"
  /\ child' = "failed"
  /\ errorPending' = TRUE
  /\ timeoutId' = TRUE
  /\ safetyTimeout' = "armed"
  /\ UNCHANGED <<now, settled, exitCode, exitSignal, sigtermSent, signalsSent, childKilled, killed,
                 ex, exited, streams, captured, exitEmitted, closeEmitted,
                 settledAt, aliveAtTimeout>>

\* the spawn throws inside the promise executor: the promise rejects with the
\* error and no timer is ever armed
CallSpawnThrows ==
  /\ UNCHANGED nonExecutor
  /\ promise = "none"
  /\ \E t \in 1..MaxTimeout, b \in 1..MaxBuffer : timeoutMs' = t /\ maxBuffer' = b
  /\ promise' = "rejected"
  /\ settled' = Rejected(Err("spawn", "", 0))
  /\ settledAt' = now
  /\ child' = "failed"
  /\ UNCHANGED <<now, exitCode, exitSignal, sigtermSent, signalsSent, childKilled, timeoutId, killed,
                 ex, exited, streams, captured, safetyTimeout, errorPending,
                 exitEmitted, closeEmitted, aliveAtTimeout>>

\* the 'error' event of a child that never started: exec's errorhandler sets
\* ex, destroys the streams and runs exithandler(); no 'exit' event follows
EmitError ==
  /\ UNCHANGED nonExecutor
  /\ errorPending
  /\ errorPending' = FALSE
  /\ streams' = "destroyed"
  /\ exited' = TRUE
  /\ timeoutId' = FALSE
  /\ ex' = "spawn"
  /\ SettleWith(callbackOnError(BareError, "spawn", timeoutMs))
  /\ UNCHANGED <<now, timeoutMs, maxBuffer, child, exitCode, exitSignal, sigtermSent, signalsSent,
                 childKilled, killed, captured, safetyTimeout, exitEmitted,
                 closeEmitted, aliveAtTimeout>>

\* a variant of ChildWrites that runs kill() on every chunk of output
ChildWrites_KillsOnOutput ==
  /\ UNCHANGED nonExecutor
  /\ child = "running"
  /\ streams = "open"
  /\ ExecKill
  /\ UNCHANGED <<now, timeoutMs, maxBuffer, promise, settled, child, exitCode,
                 exitSignal, timeoutId, ex, exited, captured, safetyTimeout,
                 errorPending, exitEmitted, closeEmitted, settledAt, aliveAtTimeout>>

\* the child writes a chunk of output: captured, or over the cap, where exec
\* sets ex to the maxBuffer error and runs kill()
ChildWrites ==
  /\ UNCHANGED nonExecutor
  /\ child = "running"
  /\ streams = "open"
  /\ IF captured + 1 > maxBuffer
     THEN /\ ex' = "maxBuffer"
          /\ ExecKill
          /\ UNCHANGED captured
     ELSE /\ captured' = captured + 1
          /\ UNCHANGED <<ex, streams, killed, sigtermSent, signalsSent, childKilled>>
  /\ UNCHANGED <<now, timeoutMs, maxBuffer, promise, settled, child, exitCode,
                 exitSignal, timeoutId, exited, safetyTimeout, errorPending,
                 exitEmitted, closeEmitted, settledAt, aliveAtTimeout>>

\* the child ends by itself with an exit status (also from a SIGTERM handler)
ChildExits ==
  /\ UNCHANGED nonExecutor
  /\ child = "running"
  /\ child' = "dead"
  /\ \E code \in {0, 1} : exitCode' = code
  /\ exitSignal' = "null"
  /\ UNCHANGED <<now, timeoutMs, maxBuffer, promise, settled, sigtermSent, signalsSent, childKilled,
                 timeoutId, killed, ex, exited, streams, captured, safetyTimeout,
                 errorPending, exitEmitted, closeEmitted, settledAt, aliveAtTimeout>>

\* the SIGTERM the bridge sent ends the child (it may also never do so)
ChildDiesOfSigterm ==
  /\ UNCHANGED nonExecutor
  /\ child = "running"
  /\ sigtermSent
  /\ child' = "dead"
  /\ exitSignal' = "SIGTERM"
  /\ UNCHANGED <<now, timeoutMs, maxBuffer, promise, settled, exitCode, sigtermSent, signalsSent,
                 childKilled, timeoutId, killed, ex, exited, streams, captured,
                 safetyTimeout, errorPending, exitEmitted, closeEmitted, settledAt,
                 aliveAtTimeout>>

\* a signal sent from outside the bridge ends the child
ChildKilledFromOutside ==
  /\ UNCHANGED nonExecutor
  /\ child = "running"
  /\ child' = "dead"
  /\ \E sig \in {"SIGTERM", "SIGKILL"} : exitSignal' = sig
  /\ UNCHANGED <<now, timeoutMs, maxBuffer, promise, settled, exitCode, sigtermSent, signalsSent,
                 childKilled, timeoutId, killed, ex, exited, streams, captured,
                 safetyTimeout, errorPending, exitEmitted, closeEmitted, settledAt,
                 aliveAtTimeout>>

\* the 'exit' event: child.on("exit", () => clearTimeout(safetyTimeout))
EmitExit ==
  /\ UNCHANGED nonExecutor
  /\ child = "dead"
  /\ ~exitEmitted
  /\ exitEmitted' = TRUE
  /\ safetyTimeout' = IF safetyTimeout = "armed" THEN "cleared" ELSE safetyTimeout
  /\ UNCHANGED <<now, timeoutMs, maxBuffer, promise, settled, child, exitCode,
                 exitSignal, sigtermSent, signalsSent, childKilled, timeoutId, killed, ex, exited,
                 streams, captured, errorPending, closeEmitted, settledAt,
                 aliveAtTimeout>>

\* the output streams of a dead child reach their end (as late as the last
\* process holding the pipes lets them)
StreamsEnd ==
  /\ UNCHANGED nonExecutor
  /\ child = "dead"
  /\ streams = "open"
  /\ streams' = "ended"
  /\ UNCHANGED <<now, timeoutMs, maxBuffer, promise, settled, child, exitCode,
                 exitSignal, sigtermSent, signalsSent, childKilled, timeoutId, killed, ex, exited,
                 captured, safetyTimeout, errorPending, exitEmitted, closeEmitted,
                 settledAt, aliveAtTimeout>>

\* the 'close' event, after 'exit' and the end of the streams: exithandler
EmitClose ==
  /\ UNCHANGED nonExecutor
  /\ exitEmitted
  /\ streams # "open"
  /\ ~closeEmitted
  /\ closeEmitted' = TRUE
  /\ ExitHandler(exitCode, exitSignal)
  /\ UNCHANGED <<now, timeoutMs, maxBuffer, child, exitCode, exitSignal, sigtermSent, signalsSent,
                 childKilled, killed, streams, captured, safetyTimeout, errorPending,
                 exitEmitted, aliveAtTimeout>>

\* exec's own timeout elapses: kill()
ExecTimeoutFires ==
  /\ UNCHANGED nonExecutor
  /\ timeoutId
  /\ now = timeoutMs
  /\ timeoutId' = FALSE
  /\ ExecKill
  /\ aliveAtTimeout' = (child = "running")
  /\ UNCHANGED <<now, timeoutMs, maxBuffer, promise, settled, child, exitCode,
                 exitSignal, ex, exited, captured, safetyTimeout, errorPending,
                 exitEmitted, closeEmitted, settledAt>>

\* the safety timer elapses: child.kill("SIGTERM"), then reject
SafetyTimeoutFires ==
  /\ UNCHANGED nonExecutor
  /\ safetyTimeout = "armed"
  /\ now = timeoutMs + SafetyDelay
  /\ safetyTimeout' = "fired"
  /\ ChildKill
  /\ SettleWith(Rejected(Err("timeout", "", timeoutMs)))
  /\ UNCHANGED <<now, timeoutMs, maxBuffer, child, exitCode, exitSignal, timeoutId,
                 killed, ex, exited, streams, captured, errorPending, exitEmitted,
                 closeEmitted, aliveAtTimeout>>

\* work the event loop does before time moves on: a due timer, a queued event
LoopBusy ==
  \/ timeoutId /\ now = timeoutMs
  \/ safetyTimeout = "armed" /\ now = timeoutMs + SafetyDelay
  \/ errorPending
  \/ child = "dead" /\ ~exitEmitted
  \/ exitEmitted /\ streams # "open" /\ ~closeEmitted

\* 500 ms pass
Tick ==
  /\ UNCHANGED nonExecutor
  /\ promise # "none"
  /\ ~LoopBusy
  /\ now < timeoutMs + SafetyDelay + 1
  /\ now' = now + 1
  /\ UNCHANGED <<timeoutMs, maxBuffer, promise, settled, child, exitCode, exitSignal,
                 sigtermSent, signalsSent, childKilled, timeoutId, killed, ex, exited, streams,
                 captured, safetyTimeout, errorPending, exitEmitted, closeEmitted,
                 settledAt, aliveAtTimeout>>

NextExecutor ==
  \/ CallSpawns \/ CallSpawnFails \/ CallSpawnThrows
  \/ EmitError
  \/ ChildWrites \/ ChildExits \/ ChildDiesOfSigterm \/ ChildKilledFromOutside
  \/ EmitExit \/ StreamsEnd \/ EmitClose
  \/ ExecTimeoutFires \/ SafetyTimeoutFires
  \/ Tick

\* ------------------------------------------------- the promisified exec
\* One call of execAsync(command, { timeout }), as getPatternDetails makes it:
\* exec with its own timeout and nothing else: no safety timer, no listener
\* of 'exit'.  The promise is settled by exec's callback alone.

\* what the promise of the promisified exec settles with at exithandler: the
\* error itself on a failure
ExitHandlerAsync(code, signal) ==
  IF exited THEN UNCHANGED <<exited, timeoutId, ex, promise, settled, settledAt>>
  ELSE /\ exited' = TRUE
       /\ timeoutId' = FALSE
       /\ UNCHANGED ex
       /\ IF ex = "none" /\ code = 0 /\ signal = "null"
          THEN SettleWith(Resolved(<<>>, <<>>))
          ELSE IF ex = "none"
          THEN SettleWith(Rejected(Err("failed", "", 0)))
          ELSE SettleWith(Rejected(Err(ex, "", 0)))

\* execAsync is called and the shell is spawned: exec arms its timeout
CallExecAsync ==
  /\ UNCHANGED nonExecutor
  /\ promise = "none"
  /\ \E t \in 1..MaxTimeout, b \in 1..MaxBuffer : timeoutMs' = t /\ maxBuffer' = b
  /\ promise' = "pending"
  /\ child' = "running"
  /\ timeoutId' = TRUE
  /\ UNCHANGED <<now, settled, exitCode, exitSignal, sigtermSent, signalsSent,
                 childKilled, killed, ex, exited, streams, captured, safetyTimeout,
                 errorPending, exitEmitted, closeEmitted, settledAt, aliveAtTimeout>>

\* the spawn fails with an error reported by the 'error' event
CallExecAsyncFails ==
  /\ UNCHANGED nonExecutor
  /\ promise = "none"
  /\ \E t \in 1..MaxTimeout, b \in 1..MaxBuffer : timeoutMs' = t /\ maxBuffer' = b
  /\ promise' = "pending"
  /\ child' = "failed"
  /\ errorPending' = TRUE
  /\ timeoutId' = TRUE
  /\ UNCHANGED <<now, settled, exitCode, exitSignal, sigtermSent, signalsSent,
                 childKilled, killed, ex, exited, streams, captured, safetyTimeout,
                 exitEmitted, closeEmitted, settledAt, aliveAtTimeout>>

\* the 'error' event of a child that never started
EmitErrorAsync ==
  /\ UNCHANGED nonExecutor
  /\ errorPending
  /\ errorPending' = FALSE
  /\ streams' = "destroyed"
  /\ exited' = TRUE
  /\ timeoutId' = FALSE
  /\ ex' = "spawn"
  /\ SettleWith(Rejected(Err("spawn", "", 0)))
  /\ UNCHANGED <<now, timeoutMs, maxBuffer, child, exitCode, exitSignal, sigtermSent,
                 signalsSent, childKilled, killed, captured, safetyTimeout,
                 exitEmitted, closeEmitted, aliveAtTimeout>>

\* the 'close' event: exithandler settles the promise
EmitCloseAsync ==
  /\ UNCHANGED nonExecutor
  /\ exitEmitted
  /\ streams # "open"
  /\ ~closeEmitted
  /\ closeEmitted' = TRUE
  /\ ExitHandlerAsync(exitCode, exitSignal)
  /\ UNCHANGED <<now, timeoutMs, maxBuffer, child, exitCode, exitSignal, sigtermSent,
                 signalsSent, childKilled, killed, streams, captured, safetyTimeout,
                 errorPending, exitEmitted, aliveAtTimeout>>

\* the child, its events, exec's timeout and the clock are those of exec
NextExecAsync ==
  \/ CallExecAsync \/ CallExecAsyncFails
  \/ EmitErrorAsync
  \/ ChildWrites \/ ChildExits \/ ChildDiesOfSigterm \/ ChildKilledFromOutside
  \/ EmitExit \/ StreamsEnd \/ EmitCloseAsync
  \/ ExecTimeoutFires
  \/ Tick

\* ------------------------------------------------------ concurrent calls
\* the two calls in flight
Calls == {1, 2}

\* the output of the process of call c: different for every call
StdoutOfCall(c) == [i \in 1..c |-> "w"]

NoCall ==
  [promise |-> "none", settled |-> NoOutcome, startedAt |-> 0, settledAt |-> 0,
   child |-> "none", exitCode |-> 0, exitSignal |-> "null", signalsFrom |-> {},
   childKilled |-> FALSE, timeoutId |-> FALSE, killed |-> FALSE, ex |-> "none",
   exited |-> FALSE, streams |-> "open", safetyTimeout |-> "unset",
   errorPending |-> FALSE, exitEmitted |-> FALSE, closeEmitted |-> FALSE]

InitCalls ==
  /\ calls = [c \in Calls |-> NoCall]
  /\ clock = 0

\* a variant of safetyTimeoutOf where the timer's handle is kept in one
\* variable of the module, shared by the calls
safetyTimeoutOf_Shared(c) ==
  IF \E d \in Calls : calls[d].safetyTimeout = "armed"
  THEN CHOOSE d \in Calls : calls[d].safetyTimeout = "armed"
  ELSE c

\* the call whose safety timer the 'exit' listener of call c clears: the
\* timer is a const of the promise executor of call c
safetyTimeoutOf(c) == c

\* the call whose child the safety timer of call c signals: child is a const
\* of the same closure
childOf(c) == c

\* resolve / reject of the promise of a call
SettleCall(r, o) ==
  IF r.promise = "pending"
  THEN [r EXCEPT !.promise = o.state, !.settled = o, !.settledAt = clock]
  ELSE r

\* ChildProcess.kill on the child of a call, from a timer of call by
KillChildOf(r, by) ==
  [r EXCEPT !.signalsFrom = IF r.child = "running" THEN @ \cup {by} ELSE @,
            !.childKilled = @ \/ (r.child \in {"running", "dead"} /\ ~r.exitEmitted)]

\* exec's kill() in a call
ExecKillOf(r, by) ==
  [KillChildOf(r, by) EXCEPT !.streams = "destroyed", !.killed = TRUE]

\* exec's exithandler in call c
ExitHandlerOf(c, r) ==
  IF r.exited THEN r
  ELSE LET q == [r EXCEPT !.exited = TRUE, !.timeoutId = FALSE]
       IN IF r.ex = "none" /\ r.exitCode = 0 /\ r.exitSignal = "null"
          THEN SettleCall(q, Resolved(StdoutOfCall(c), <<>>))
          ELSE IF r.ex = "none"
          THEN SettleCall(q, callbackOnError(
                 GenericError(r.exitCode, r.childKilled \/ r.killed, r.exitSignal),
                 "failed", CallTimeout))
          ELSE SettleCall(q, callbackOnError(BareError, r.ex, CallTimeout))

\* a handler invocation calls execWithTimeout and the shell is spawned
StartCall(c) ==
  /\ UNCHANGED nonCalls
  /\ calls[c].promise = "none"
  /\ clock <= MaxStart
  /\ calls' = [calls EXCEPT ![c] =
       [NoCall EXCEPT !.promise = "pending", !.startedAt = clock, !.child = "running",
                      !.timeoutId = TRUE, !.safetyTimeout = "armed"]]
  /\ UNCHANGED clock

\* the spawn of a call fails with an error reported by the 'error' event
StartCallFails(c) ==
  /\ UNCHANGED nonCalls
  /\ calls[c].promise = "none"
  /\ clock <= MaxStart
  /\ calls' = [calls EXCEPT ![c] =
       [NoCall EXCEPT !.promise = "pending", !.startedAt = clock, !.child = "failed",
                      !.errorPending = TRUE, !.timeoutId = TRUE,
                      !.safetyTimeout = "armed"]]
  /\ UNCHANGED clock

\* the 'error' event of a call whose child never started
EmitErrorOf(c) ==
  /\ UNCHANGED nonCalls
  /\ calls[c].errorPending
  /\ calls' = [calls EXCEPT ![c] =
       SettleCall([@ EXCEPT !.errorPending = FALSE, !.streams = "destroyed",
                            !.exited = TRUE, !.timeoutId = FALSE, !.ex = "spawn"],
                  callbackOnError(BareError, "spawn", CallTimeout))]
  /\ UNCHANGED clock

\* the child of a call ends by itself with an exit status
ChildExitsOf(c) ==
  /\ UNCHANGED nonCalls
  /\ calls[c].child = "running"
  /\ \E code \in {0, 1} :
       calls' = [calls EXCEPT ![c].child = "dead", ![c].exitCode = code]
  /\ UNCHANGED clock

\* a SIGTERM the bridge sent ends the child of a call
ChildDiesOfSigtermOf(c) ==
  /\ UNCHANGED nonCalls
  /\ calls[c].child = "running"
  /\ calls[c].signalsFrom # {}
  /\ calls' = [calls EXCEPT ![c].child = "dead", ![c].exitSignal = "SIGTERM"]
  /\ UNCHANGED clock

\* the 'exit' event of the child of a call: clearTimeout(safetyTimeout)
EmitExitOf(c) ==
  /\ UNCHANGED nonCalls
  /\ calls[c].child = "dead"
  /\ ~calls[c].exitEmitted
  /\ calls' = [calls EXCEPT
       ![c].exitEmitted = TRUE,
       ![safetyTimeoutOf(c)].safetyTimeout = IF @ = "armed" THEN "cleared" ELSE @]
  /\ UNCHANGED clock

\* the output streams of the dead child of a call reach their end
StreamsEndOf(c) ==
  /\ UNCHANGED nonCalls
  /\ calls[c].child = "dead"
  /\ calls[c].streams = "open"
  /\ calls' = [calls EXCEPT ![c].streams = "ended"]
  /\ UNCHANGED clock

\* the 'close' event of the child of a call: exithandler
EmitCloseOf(c) ==
  /\ UNCHANGED nonCalls
  /\ calls[c].exitEmitted
  /\ calls[c].streams # "open"
  /\ ~calls[c].closeEmitted
  /\ calls' = [calls EXCEPT ![c] = ExitHandlerOf(c, [@ EXCEPT !.closeEmitted = TRUE])]
  /\ UNCHANGED clock

\* exec's timeout of a call elapses: kill()
ExecTimeoutFiresOf(c) ==
  /\ UNCHANGED nonCalls
  /\ calls[c].timeoutId
  /\ clock = calls[c].startedAt + CallTimeout
  /\ calls' = [calls EXCEPT ![c] = ExecKillOf([@ EXCEPT !.timeoutId = FALSE], c)]
  /\ UNCHANGED clock

\* the safety timer of a call elapses: child.kill("SIGTERM"), then reject
SafetyTimeoutFiresOf(c) ==
  /\ UNCHANGED nonCalls
  /\ calls[c].safetyTimeout = "armed"
  /\ clock = calls[c].startedAt + CallTimeout + SafetyDelay
  /\ LET fired == [calls EXCEPT ![c].safetyTimeout = "fired"]
         signalled == [fired EXCEPT ![childOf(c)] = KillChildOf(@, c)]
     IN calls' = [signalled EXCEPT
                    ![c] = SettleCall(@, Rejected(Err("timeout", "", CallTimeout)))]
  /\ UNCHANGED clock

\* work the event loop does before time moves on, in any call
CallsBusy ==
  \E c \in Calls :
    \/ calls[c].timeoutId /\ clock = calls[c].startedAt + CallTimeout
    \/ calls[c].safetyTimeout = "armed"
         /\ clock = calls[c].startedAt + CallTimeout + SafetyDelay
    \/ calls[c].errorPending
    \/ calls[c].child = "dead" /\ ~calls[c].exitEmitted
    \/ calls[c].exitEmitted /\ calls[c].streams # "open" /\ ~calls[c].closeEmitted

\* 500 ms pass
TickCalls ==
  /\ UNCHANGED nonCalls
  /\ ~CallsBusy
  /\ clock < MaxStart + CallTimeout + SafetyDelay + 1
  /\ clock' = clock + 1
  /\ UNCHANGED calls

NextCalls ==
  \/ \E c \in Calls : StartCall(c)
  \/ \E c \in Calls : StartCallFails(c)
  \/ \E c \in Calls : EmitErrorOf(c)
  \/ \E c \in Calls : ChildExitsOf(c)
  \/ \E c \in Calls : ChildDiesOfSigtermOf(c)
  \/ \E c \in Calls : EmitExitOf(c)
  \/ \E c \in Calls : StreamsEndOf(c)
  \/ \E c \in Calls : EmitCloseOf(c)
  \/ \E c \in Calls : ExecTimeoutFiresOf(c)
  \/ \E c \in Calls : SafetyTimeoutFiresOf(c)
  \/ TickCalls

\* ---------------------------------------------------------------- startup
\* the process has started and nothing has run yet
InitStartup ==
  /\ entry \in {"index", "main"}
  /\ server = "starting"
  /\ fabricPresent \in BOOLEAN
  /\ fabricInstalled = "unset"
  /\ probes = 0
  /\ startupLog = <<>>

\* the startup is over: the program was found and the transport is connected
InitServing ==
  /\ entry = "index"
  /\ server = "running"
  /\ fabricPresent = TRUE
  /\ fabricInstalled = "yes"
  /\ probes = 1
  /\ startupLog = <<"info", "info">>

\* what checkFabricInstalled may return: true when `which` exits with status
\* 0, false when exec rejects (not found, timeout, spawn error)
ProbeResults == IF fabricPresent THEN {"yes", "no"} ELSE {"no"}

\* logger.info("Starting..."), then checkFabricInstalled() spawns `which`
StartProbe ==
  /\ UNCHANGED nonStartup
  /\ server = "starting"
  /\ server' = "probing"
  /\ probes' = probes + 1
  /\ startupLog' = Append(startupLog, "info")
  /\ UNCHANGED <<entry, fabricPresent, fabricInstalled>>

\* the probe settles at the top level of src/index.ts: two warnings when the
\* program was not found, then server.connect(transport) in either case
ProbeSettlesIndex ==
  /\ UNCHANGED nonStartup
  /\ entry = "index"
  /\ server = "probing"
  /\ \E result \in ProbeResults : fabricInstalled' = result
  /\ startupLog' = IF fabricInstalled' = "no"
                   THEN startupLog \o <<"warn", "warn">>
                   ELSE startupLog
  /\ server' = "connecting"
  /\ UNCHANGED <<entry, fabricPresent, probes>>

\* the probe settles in main() of the other entry file: logger.error and
\* process.exit(1) when the program was not found, server.connect otherwise
ProbeSettlesMain ==
  /\ UNCHANGED nonStartup
  /\ entry = "main"
  /\ server = "probing"
  /\ \E result \in ProbeResults : fabricInstalled' = result
  /\ IF fabricInstalled' = "no"
     THEN /\ startupLog' = Append(startupLog, "error")
          /\ server' = "exited"
     ELSE /\ server' = "connecting"
          /\ UNCHANGED startupLog
  /\ UNCHANGED <<entry, fabricPresent, probes>>

\* server.connect(transport) returns: logger.info("... running on stdio")
Connected ==
  /\ UNCHANGED nonStartup
  /\ server = "connecting"
  /\ server' = "running"
  /\ startupLog' = Append(startupLog, "info")
  /\ UNCHANGED <<entry, fabricPresent, fabricInstalled, probes>>

NextStartup ==
  \/ StartProbe \/ ProbeSettlesIndex \/ ProbeSettlesMain \/ Connected
  \/ NextDispatcher

Init == InitDispatcher /\ InitExecutor /\ InitCalls /\ InitServing

\* the dispatcher, one call at a time
Spec == Init /\ [][NextDispatcher]_vars

\* one call of the command executor
SpecExec == Init /\ [][NextExecutor]_vars

\* calls in flight at once
SpecCalls == Init /\ [][NextCalls]_vars

\* the process from its start
InitProcess == InitDispatcher /\ InitExecutor /\ InitCalls /\ InitStartup
SpecStartup == InitProcess /\ [][NextStartup]_vars

\* one call of the promisified exec
SpecExecAsync == Init /\ [][NextExecAsync]_vars

\* ------------------------------------------------------------------ claims
IsSettled == promise \in {"resolved", "rejected"}

ValidatedTools ==
  {"execute_pattern", "get_pattern_details", "process_url", "process_youtube"}

RequiredFieldsOf(name) == FieldsOf(name) \ {"model", "search"}

\* a field that is absent, empty or made of whitespace only
IsBlank(args, field) ==
  field \notin DOMAIN args \/ \A i \in 1..Len(args[field]) : args[field][i] \in Whitespace

HasBlankRequiredField ==
  /\ req.name \in ValidatedTools
  /\ \E f \in RequiredFieldsOf(req.name) : IsBlank(req.args, f)

IsListCall == req.name = "list_patterns"
SearchTerm == Arg(req.args, "search")

\* the entries the primary source yields: the directories readdir gave
PrimaryNames ==
  {fsResult.entries[i].name :
     i \in {j \in 1..Len(fsResult.entries) : fsResult.entries[j].isDirectory}}

\* C1: in execute_pattern, get_pattern_details, process_url and
\* process_youtube, a call with a required field absent, empty or
\* whitespace-only spawns no external process at any point of the call.
C1_NoSpawnOnBlankField == HasBlankRequiredField => (spawnLog = <<>> /\ pc # "exec")

C1_Witness ==
  /\ pc = "done"
  /\ req.name = "process_url"
  /\ "url" \in DOMAIN req.args /\ req.args["url"] = <<"w">>
  /\ "pattern_name" \in DOMAIN req.args /\ req.args["pattern_name"] = <<" ">>
  /\ spawnLog = <<>>
  /\ response.text.error = Err("required", "pattern_name", 0)

\* C2: every tool call that fails with a validation, timeout, execution,
\* buffer-overflow or unknown-tool error answers with isError true and the
\* failure message as its text (list_patterns and list_models recover from a
\* failed listing and are left out).
C2_FailuresSetIsError ==
  (/\ pc = "done"
   /\ req.name \notin {"list_patterns", "list_models"}
   /\ \/ HasBlankRequiredField
      \/ outcome.state = "rejected"
      \/ req.name \notin ToolNames)
  => /\ response.isError
     /\ response.text.marker = "failure"
     /\ response.text.error # NoErr

\* C3: a call whose child is still running when timeoutMs elapses settles no
\* later than timeoutMs + 1000 ms after the spawn, as the failure "Command
\* timed out after <timeoutMs>ms", whatever the child then does; it is never
\* pending past that instant.
C3_TimeoutSettlesAsTimeout ==
  aliveAtTimeout =>
    /\ IsSettled => /\ settledAt <= timeoutMs + SafetyDelay
                    /\ settled = Rejected(Err("timeout", "", timeoutMs))
    /\ ~IsSettled => now <= timeoutMs + SafetyDelay

\* C4: whenever the executor has produced the outcome of a call, the process
\* spawned for the call has terminated.
C4_NoOutcomeWhileRunning == IsSettled => child # "running"

\* C5: once a call has settled, neither expiry mechanism is still armed.
C5_NoTimerArmedAfterSettle == IsSettled => (~timeoutId /\ safetyTimeout # "armed")

\* C6: when the primary source yields no entry, list_patterns spawns the
\* fallback listing exactly once in the call; if that command fails the
\* response is the empty-catalog message, not an error.
C6_FallbackOnceThenEmptyCatalog ==
  (IsListCall /\ fsResult.state # "unread" /\ PrimaryNames = {})
  => /\ Len(spawnLog) = 1
     /\ spawnLog[1].kind = "listpatterns"
     /\ (pc = "done" /\ outcome.state = "rejected")
        => /\ ~response.isError
           /\ response.text.error = NoErr
           /\ response.text.entries = <<>>
           /\ response.text.head =
                "No patterns available. Fabric may not be properly configured."

C6_Witness ==
  /\ pc = "done"
  /\ IsListCall
  /\ fsResult.state = "error"
  /\ outcome = Rejected(Err("timeout", "", 5000))
  /\ Len(spawnLog) = 1
  /\ ~response.isError

\* C7: the entries of one list_patterns call come from one source: with a
\* non-empty primary source the fallback is never spawned (also when the
\* search term filters every entry out), and when the fallback is spawned the
\* primary source is empty and the entries are lines of its output.
C7_OneSource ==
  IsListCall =>
    /\ spawnLog # <<>> => PrimaryNames = {}
    /\ (pc = "done" /\ PrimaryNames # {})
       => (spawnLog = <<>> /\ Range(response.text.entries) \subseteq PrimaryNames)
    /\ (pc = "done" /\ spawnLog # <<>>)
       => Range(response.text.entries) \subseteq Range(split(outcome.stdout))

C7_Witness ==
  /\ pc = "done"
  /\ IsListCall
  /\ PrimaryNames = {<<"W">>, <<"e">>}
  /\ SearchTerm = <<"e", "w">>
  /\ response.text.entries = <<>>
  /\ spawnLog = <<>>

\* C8: the identifiers list_patterns returns are in sorted order, whichever
\* source produced them.
C8_ResultSorted == (pc = "done" /\ IsListCall) => IsSorted(response.text.entries)

\* C9: with a populated primary source, list_patterns returns exactly the
\* entries whose lower-cased name contains the lower-cased search term (all of
\* them for an empty term), sorted, and the count of the heading is the
\* number of entries returned.
C9_PrimaryFilteredSortedCounted ==
  (pc = "done" /\ IsListCall /\ PrimaryNames # {})
  => LET expected == {n \in PrimaryNames :
                        SearchTerm = <<>>
                        \/ includes(toLowerCase(n), toLowerCase(SearchTerm))}
         entries == response.text.entries
     IN /\ Range(entries) = expected
        /\ Len(entries) = Cardinality(expected)
        /\ IsSorted(entries)
        /\ expected # {} => (response.text.marker = "catalog"
                             /\ response.text.count = Cardinality(expected))
        /\ (<<"W", "e">> \in PrimaryNames /\ SearchTerm \in {<<"w">>, <<"w", "e">>})
           => <<"W", "e">> \in Range(entries)

C9_Witness ==
  /\ pc = "done"
  /\ IsListCall
  /\ PrimaryNames = {<<"W", "e">>, <<"e">>}
  /\ SearchTerm = <<"w">>
  /\ response.text.entries = <<<<"W", "e">>>>
  /\ response.text.count = 1

IsEmptyListResult == pc = "done" /\ IsListCall /\ response.text.marker # "catalog"

SearchDecidesEmptyMessage ==
  /\ response.text.head = "No patterns found matching" <=> SearchTerm # <<>>
  /\ response.text.head = "No patterns available" <=> SearchTerm = <<>>

\* C10 as stated: whenever list_patterns ends with an empty result, by any
\* path, the message is the "no patterns found matching" form iff the search
\* term is non-empty and the "no patterns available" form iff it is empty.
C10_EmptyMessageBySearch ==
  IsEmptyListResult =>
    /\ response.text.head = "No patterns found matching" <=> SearchTerm # <<>>
    /\ response.text.head \in
         {"No patterns available",
          "No patterns available. Fabric may not be properly configured."}
       <=> SearchTerm = <<>>

\* C10 amended: when list_patterns ends with an empty result after a source
\* was read (primary entries all filtered out, fallback output empty or all
\* filtered out) the search term decides the message as stated; when the
\* fallback process failed the message is the "No patterns available. Fabric
\* may not be properly configured." form whatever the search term.
C10_EmptyMessageAmended ==
  IsEmptyListResult =>
    IF outcome.state = "rejected"
    THEN response.text = NotConfigured
    ELSE SearchDecidesEmptyMessage

C10_Witness ==
  /\ IsEmptyListResult
  /\ outcome.state = "rejected"
  /\ SearchTerm = <<"w">>
  /\ response.text = NotConfigured

\* the caller fields a command line interpolates, with the part of the
\* command each one goes to
InterpolatedFieldsOf(name) ==
  CASE name = "execute_pattern" ->
         {<<"pattern_name", "pattern">>, <<"input_text", "target">>, <<"model", "model">>}
    [] name = "process_url" ->
         {<<"pattern_name", "pattern">>, <<"url", "target">>, <<"model", "model">>}
    [] name = "process_youtube" ->
         {<<"pattern_name", "pattern">>, <<"youtube_url", "target">>, <<"model", "model">>}
    [] name = "get_pattern_details" -> {<<"pattern_name", "pattern">>}
    [] OTHER -> {}

\* C11: in execute_pattern, process_url, process_youtube and
\* get_pattern_details, every caller field interpolated into a spawned command
\* (pattern_name, input_text, url, youtube_url and the optional model) went
\* through the validator first: the command holds the validator's result for
\* it, a trimmed non-blank value.
C11_CommandFromValidatedFields ==
  \A i \in 1..Len(spawnLog) :
    \A fp \in InterpolatedFieldsOf(req.name) :
      LET part == spawnLog[i][fp[2]]
      IN (fp[1] \in RequiredFieldsOf(req.name) \/ part # <<>>)
         => /\ part # <<>>
            /\ part = trim(part)
            /\ part = trim(Arg(req.args, fp[1]))

\* the steps in which one of the bridge's mechanisms acts on the child
ExecTimeoutFired == timeoutId /\ ~timeoutId' /\ now = timeoutMs /\ exited' = exited
SafetyTimeoutFired == safetyTimeout = "armed" /\ safetyTimeout' = "fired"
MaxBufferExceeded == ex = "none" /\ ex' = "maxBuffer"

\* C12: the bridge sends a signal to a running child only when one of the two
\* timeouts fires, and for no other reason.
C12_SignalsOnlyOnTimeout ==
  [][signalsSent' > signalsSent => ExecTimeoutFired \/ SafetyTimeoutFired]_vars

\* C12, amended: the bridge sends a signal to a running child only when one of
\* the two timeouts fires or when the output goes over the cap.
C12_SignalsOnTimeoutOrOverflow ==
  [][signalsSent' > signalsSent
       => ExecTimeoutFired \/ SafetyTimeoutFired \/ MaxBufferExceeded]_vars

\* a child that got a signal for each of the three reasons
C12_Witness ==
  /\ signalsSent = 3
  /\ ex = "maxBuffer"
  /\ safetyTimeout = "fired"

\* C13: a call whose captured output went over the cap fails with the
\* buffer-overflow failure, which is neither the timeout failure nor the
\* failure of a non-zero exit, and carries no captured output.
C13_OverflowFailsAsOverflow ==
  (ex = "maxBuffer" /\ IsSettled) => settled = Rejected(Err("maxBuffer", "", 0))

\* what the outcome of a call says about the call's own process and timers
OwnOutcome(c) ==
  LET r == calls[c]
  IN /\ r.signalsFrom \subseteq {c}
     /\ r.signalsFrom # {} => clock >= r.startedAt + CallTimeout
     /\ r.promise = "pending" => clock <= r.startedAt + CallTimeout + SafetyDelay
     /\ r.promise = "resolved"
          => /\ r.settled = Resolved(StdoutOfCall(c), <<>>)
             /\ r.child = "dead" /\ r.exitCode = 0 /\ r.exitSignal = "null"
     /\ r.promise = "rejected"
          => /\ r.settled.error.kind \in {"timeout", "failed", "spawn"}
             /\ r.settled.error.kind = "timeout"
                  => r.settledAt >= r.startedAt + CallTimeout
             /\ r.settled.error.kind = "failed"
                  => r.child = "dead" /\ (r.exitCode # 0 \/ r.exitSignal # "null")
             /\ r.settled.error.kind = "spawn" => r.child = "failed"

\* a step changes the state of one call at most
OneCallPerStep ==
  \A c, d \in Calls : c # d => ~(calls'[c] # calls[c] /\ calls'[d] # calls[d])

WellFormed(r) ==
  /\ r.text.marker \in {"failure", "success", "catalog", "detail", "info"}
  /\ r.text.head # "" \/ r.text.error # NoErr
  /\ r.isError \in BOOLEAN
  /\ r.isError => r.text.marker = "failure"

\* C15: whatever the tool name, the arguments and the outcome of the
\* operation, the call ends with a well-formed response: a text payload, with
\* the error flag only on a failure; no call ends without one.
C15_ResponseWellFormed ==
  pc = "done" => WellFormed(response)

\* an operation whose command could not be spawned ended with a response
C15_Witness ==
  /\ pc = "done"
  /\ outcome.state = "rejected"
  /\ outcome.error.kind = "spawn"
  /\ WellFormed(response)

\* C16: a call with a name that is no tool spawns nothing and ends with
\* isError true and the failure text "Unknown tool: <name>" of that name.
C16_UnknownToolRejected ==
  (pc = "done" /\ req.name \notin ToolNames)
    => /\ spawnLog = <<>>
       /\ response.isError
       /\ response.text = formatError(Err("unknownTool", req.name, 0))
       /\ response.text.marker = "failure"
       /\ response.text.error.name = req.name

\* the call of the unknown tool "bogus" has been answered
C16_Witness ==
  /\ pc = "done"
  /\ req.name = "bogus"
  /\ response.isError
  /\ response.text.error.name = "bogus"

\* the head of the success text of the operations that return the output
SuccessHeadOf(name) ==
  CASE name = "execute_pattern" -> "Pattern Result"
    [] name = "process_url" -> "URL Processing Result"
    [] name = "process_youtube" -> "YouTube Processing Result"
    [] name = "update_patterns" -> "Patterns Updated"
    [] OTHER -> ""

ExecutionTools == {"execute_pattern", "process_url", "process_youtube", "update_patterns"}

\* what the claim C19 says of a state of the process
DegradedStartup ==
  /\ probes <= 1
  /\ server \in {"probing", "connecting", "running"} => probes = 1
  /\ server # "exited"
  /\ (server \in {"connecting", "running"} /\ fabricInstalled = "no")
       => "warn" \in Range(startupLog)
  /\ server = "connecting" => ENABLED Connected
  /\ (server = "running" /\ ~fabricPresent /\ pc = "done")
       => /\ (IsListCall /\ PrimaryNames # {})
               => /\ spawnLog = <<>>
                  /\ response.text = listPatternsFromPrimary(patterns, SearchTerm)
          /\ (req.name \in ExecutionTools /\ ~HasBlankRequiredField)
               => /\ response.text.marker = "failure"
                  /\ response.text.error = outcome.error
                  /\ outcome.state = "rejected"

\* C19: the process probes for the external program exactly once at its
\* start; when the program is absent it logs a warning and still connects the
\* transport and serves calls, and then list_patterns answers from the
\* filesystem and every execution operation fails, call by call.
C19_DegradedStartup ==
  DegradedStartup

\* the same, of the entry file src/index.ts alone
C19_IndexAlone ==
  entry = "index" => DegradedStartup

\* the order in which an operation validates its required fields
ValidationOrderOf(name) ==
  CASE name = "execute_pattern" -> <<"pattern_name", "input_text">>
    [] name = "get_pattern_details" -> <<"pattern_name">>
    [] name = "process_url" -> <<"url", "pattern_name">>
    [] name = "process_youtube" -> <<"youtube_url", "pattern_name">>
    [] OTHER -> <<>>

\* the call has failed, and the underlying cause of the failure
HasFailed ==
  req.name \notin ToolNames \/ HasBlankRequiredField \/ outcome.state = "rejected"
CauseOfFailure ==
  IF req.name \notin ToolNames THEN Err("unknownTool", req.name, 0)
  ELSE IF HasBlankRequiredField
  THEN LET order == ValidationOrderOf(req.name)
           first == CHOOSE i \in 1..Len(order) :
                      /\ IsBlank(req.args, order[i])
                      /\ \A j \in 1..(i - 1) : ~IsBlank(req.args, order[j])
       IN Err("required", order[first], 0)
  ELSE outcome.error
FailureText == response.text = formatError(CauseOfFailure)

\* C18: in every operation, list_models included, a call that failed
\* (validation, timeout, non-zero exit, spawn failure, output cap) ends with
\* the failure marker followed by the message of the underlying cause.
C18_FailureTextEverywhere ==
  (pc = "done" /\ HasFailed)
    => /\ FailureText
       /\ response.text.marker = "failure"

\* C18, amended: the same in every operation but the two listings; a failed
\* listing in list_models ends with the setup hint, which has no failure
\* marker, and a failed fallback listing in list_patterns with the
\* not-configured message, which has the marker and not the cause.
C18_FailureTextButListings ==
  (pc = "done" /\ HasFailed)
    => /\ req.name \notin {"list_models", "list_patterns"}
            => FailureText /\ response.text.marker = "failure"
       /\ req.name = "list_models"
            => response.text = Text("info", "Models are configured via the Fabric CLI setup.")
       /\ req.name = "list_patterns"
            => response.text = NotConfigured

\* list_models has answered a failed listing of the models
C18_Witness ==
  /\ pc = "done"
  /\ req.name = "list_models"
  /\ outcome.state = "rejected"
  /\ outcome.error.kind = "timeout"
  /\ response.text.marker = "info"

\* the process was spawned and the call has not settled
SpawnedAndPending == child \in {"running", "dead"} /\ promise = "pending"

\* C20: while the process is spawned and the call unsettled, exec's timeout
\* or the safety timer is armed; the safety timer is not cleared while the
\* outcome is pending.
C20_SomeTimerArmedWhilePending ==
  SpawnedAndPending => (timeoutId \/ safetyTimeout = "armed")

\* C20, amended: while the process is spawned and the call unsettled, exec's
\* timeout or the safety timer is armed, or the child's 'exit' has been
\* emitted and its streams are ended or destroyed, so that exec's callback is
\* due before time moves on.
C20_TimerArmedOrCloseDue ==
  SpawnedAndPending
    => \/ timeoutId
       \/ safetyTimeout = "armed"
       \/ exitEmitted /\ streams # "open" /\ ~closeEmitted

\* the child ended after exec's timeout fired: 'exit' has cleared the safety
\* timer and the callback has not run yet
C20_Witness ==
  /\ SpawnedAndPending
  /\ exitEmitted
  /\ ~closeEmitted
  /\ ~timeoutId
  /\ safetyTimeout = "cleared"

\* one of the call's two timeout mechanisms has fired: the safety timer, or
\* exec's timeout (killed is set by exec's kill() alone, which runs when the
\* timeout fires and when the output goes over the cap, where it sets ex)
OwnTimeoutFired == safetyTimeout = "fired" \/ (killed /\ ex # "maxBuffer")

\* C21: a call settles with the timeout failure only if exec's timeout or the
\* safety timer of that call has fired; a process that ends for another
\* reason (non-zero exit, a signal from outside the bridge, the output cap) is
\* never reported as a timeout.
C21_TimeoutOnlyAfterOwnTimer ==
  (promise = "rejected" /\ settled.error.kind = "timeout") => OwnTimeoutFired

\* the executor each operation hands its command to
RunsThroughExecutor == \A i \in 1..Len(spawnLog) : spawnLog[i].via = "execWithTimeout"

\* C22: a call that has spawned its process has settled once timeoutMs + 1000
\* ms have passed, whether the process has ended or not: the caller of every
\* spawning operation gets its response.
C22_SettledBySafetyDeadline ==
  (promise = "pending" /\ child \in {"running", "dead"})
    => now <= timeoutMs + SafetyDelay

====
